---- MODULE Spec2Model ----
(***************************************************************************)
(* Flight route planner (src/atc.py): the route graph built from the two   *)
(* data files, the one-time weather perturbation, and route requests       *)
(* (dijkstra_multi_objective followed by analyze_path).                    *)
(*                                                                         *)
(* Units.  distance (km), duration (min) and fuel (l) are integers;        *)
(* congestion is counted in hundredths, so 0.2 is 20.  A score is counted  *)
(* in hundredths as well: the three integer attributes are multiplied by   *)
(* CongestionUnit before they are added to the congestion term.            *)
(***************************************************************************)
EXTENDS Integers, Sequences, FiniteSets, TLC

\* ---------------------------------------------------------------- bounds
MaxNode == 3
MaxAirports == 2
MaxRoutes == 3
MaxApply == 2

\* ------------------------------------------------------ program constants
\* random.uniform(0, 20): the largest weather delay, in minutes
MaxDelay == 20
\* random.uniform(0, 0.2): the largest congestion noise, in hundredths
MaxNoise == 20

\* 1.0 of congestion, in hundredths
CongestionUnit == 100

Nodes == 1..MaxNode

\* float('inf') and finite scores
Inf == [inf |-> TRUE, val |-> 0]
Fin(x) == [inf |-> FALSE, val |-> x]
\* a < b on scores
Less(a, b) == (~a.inf) /\ (b.inf \/ a.val < b.val)

\* Python's None for a path: the code only tests it with "if path"
None == <<>>

\* ------------------------------------------------------------ input files
\* the attribute columns of the routes.csv row from u to v: the airports
\* lie on a line, and every attribute grows with the length of the hop
Abs(x) == IF x < 0 THEN -x ELSE x
HopData(u, v) ==
  [weight |-> 100 * Abs(v - u), duration |-> 10 * Abs(v - u),
   fuel |-> 20 * Abs(v - u), congestion |-> 10 * Abs(v - u)]

\* the hops offered: every forward hop, and the hop back from 2 to 1
RoutePairs == { e \in Nodes \X Nodes : e[1] < e[2] \/ e = <<2, 1>> }

RouteRows ==
  { [from |-> e[1], to |-> e[2], data |-> HopData(e[1], e[2])] :
      e \in RoutePairs }

SeqsUpTo(S, n) == UNION { [1..k -> S] : k \in 0..n }

\* airports.csv: one id per row (the row number stands for the name)
AirportFiles == SeqsUpTo(Nodes, MaxAirports)
\* routes.csv
RouteFiles == SeqsUpTo(RouteRows, MaxRoutes)

\* ------------------------------------------------------------------ state
VARIABLES
  airportsFile,   \* rows of airports.csv
  routesFile,     \* rows of routes.csv
  pc,             \* "start", "built" (graph built), "ready" (mainloop)
  gNodes,         \* G._node: the nodes in insertion order
  gName,          \* G.nodes[n]['name']: airports row number, 0 when missing
  gAdj,           \* G._adj: successors of each node in insertion order
  gAttr,          \* G[u][v]: the four attributes of each edge
  weatherCalls,   \* number of calls of simulate_weather_conditions
  nxTrivial,      \* the installed networkx yields [s] for all_simple_paths(G, s, s)
  last            \* the last route request and what it produced

vars == <<airportsFile, routesFile, pc, gNodes, gName, gAdj, gAttr,
          weatherCalls, nxTrivial, last>>

files == <<airportsFile, routesFile, nxTrivial>>
graph == <<gNodes, gName, gAdj, gAttr>>

Range(s) == { s[i] : i \in 1..Len(s) }
Contains(s, x) == \E i \in 1..Len(s) : s[i] = x
AppendNew(s, x) == IF Contains(s, x) THEN s ELSE Append(s, x)

\* an empty nx.DiGraph()
EmptyGraph ==
  [nodes |-> <<>>, name |-> [n \in {} |-> 0],
   adj |-> [n \in {} |-> <<>>], attr |-> [e \in {} |-> 0]]

\* a second record of an id is ignored
AddNodeKeepingFirst(G, id, nm) ==
  [G EXCEPT
     !.nodes = AppendNew(G.nodes, id),
     !.name = [n \in DOMAIN G.name \cup {id} |->
                 IF n \in DOMAIN G.name THEN G.name[n] ELSE nm],
     !.adj = [n \in DOMAIN G.adj \cup {id} |->
                 IF n \in DOMAIN G.adj THEN G.adj[n] ELSE <<>>]]

\* G.add_node(id, name=...): a new node is appended, a known node keeps its
\* place and its edges, and the name is overwritten
AddNode(G, id, nm) ==
  [G EXCEPT
     !.nodes = AppendNew(G.nodes, id),
     !.name = [n \in DOMAIN G.name \cup {id} |->
                 IF n = id THEN nm ELSE G.name[n]],
     !.adj = [n \in DOMAIN G.adj \cup {id} |->
                 IF n \in DOMAIN G.adj THEN G.adj[n] ELSE <<>>]]

\* a node that add_edge creates on the way: it has no attributes
TouchNode(G, id) ==
  IF Contains(G.nodes, id) THEN G
  ELSE [G EXCEPT
          !.nodes = Append(G.nodes, id),
          !.name = [n \in DOMAIN G.name \cup {id} |->
                      IF n = id THEN 0 ELSE G.name[n]],
          !.adj = [n \in DOMAIN G.adj \cup {id} |->
                      IF n \in DOMAIN G.adj THEN G.adj[n] ELSE <<>>]]

\* G.add_edge(u, v, weight=..., duration=..., fuel=..., congestion=...)
AddEdge(G, u, v, data) ==
  LET G1 == TouchNode(TouchNode(G, u), v)
  IN [G1 EXCEPT
        !.adj = [G1.adj EXCEPT ![u] = AppendNew(G1.adj[u], v)],
        !.attr = [e \in DOMAIN G1.attr \cup {<<u, v>>} |->
                    IF e = <<u, v>> THEN data ELSE G1.attr[e]]]

RECURSIVE AddAirports(_, _, _)
AddAirports(G, rows, i) ==
  IF i > Len(rows) THEN G
  ELSE AddAirports(AddNode(G, rows[i], i), rows, i + 1)

RECURSIVE AddRoutes(_, _, _)
AddRoutes(G, rows, i) ==
  IF i > Len(rows) THEN G
  ELSE AddRoutes(AddEdge(G, rows[i].from, rows[i].to, rows[i].data), rows, i + 1)

build_air_route_graph(airports, routes) ==
  AddRoutes(AddAirports(EmptyGraph, airports, 1), routes, 1)

NoRequest == [kind |-> "none"]

Init ==
  /\ airportsFile \in AirportFiles
  /\ routesFile \in RouteFiles
  /\ pc = "start"
  /\ gNodes = <<>>
  /\ gName = [n \in {} |-> 0]
  /\ gAdj = [n \in {} |-> <<>>]
  /\ gAttr = [e \in {} |-> 0]
  /\ weatherCalls = 0
  /\ nxTrivial \in BOOLEAN
  /\ last = NoRequest

\* AirTrafficGUI.__init__, first half: the graph is built
Build ==
  /\ pc = "start"
  /\ LET G == build_air_route_graph(airportsFile, routesFile)
     IN /\ gNodes' = G.nodes
        /\ gName' = G.name
        /\ gAdj' = G.adj
        /\ gAttr' = G.attr
  /\ pc' = "built"
  /\ UNCHANGED <<files, weatherCalls, last>>

\* ------------------------------------------------------- weather simulation
\* the pairs (weather_delay, congestion noise) tried for an edge: the ends
\* of the two intervals, drawn independently of each other
WeatherDraws == { <<0, 0>>, <<MaxDelay, 0>>, <<0, MaxNoise>> }

\* "data['duration'] = weather_delay": the draws replace the values
simulate_weather_assigning(attr, draws) ==
  [e \in DOMAIN attr |->
     [attr[e] EXCEPT !.duration = draws[e][1],
                     !.congestion = draws[e][2]]]

\* simulate_weather_conditions: draws[e] is the pair of values that the two
\* random.uniform calls return for edge e
simulate_weather_conditions(attr, draws) ==
  [e \in DOMAIN attr |->
     [attr[e] EXCEPT !.duration = @ + draws[e][1],
                     !.congestion = @ + draws[e][2]]]

\* AirTrafficGUI.__init__, second half: the weather is simulated once and the
\* window is set up
SimulateWeather ==
  /\ pc = "built"
  /\ \E draws \in [DOMAIN gAttr -> WeatherDraws] :
       gAttr' = simulate_weather_conditions(gAttr, draws)
  /\ weatherCalls' = weatherCalls + 1
  /\ pc' = "ready"
  /\ UNCHANGED <<files, gNodes, gName, gAdj, last>>

\* ------------------------------------------------------------ path search
\* nx.all_simple_paths for one target: a depth-first search in adjacency
\* order that never revisits a node of the current path and does not search
\* beyond the target.  path is the current path, kids the successors of its
\* last node that are still to be tried.
RECURSIVE Explore(_, _, _, _)
Explore(adj, path, kids, target) ==
  IF kids = <<>> THEN <<>>
  ELSE LET child == Head(kids)
           rest == Explore(adj, path, Tail(kids), target)
       IN IF Contains(path, child) THEN rest
          ELSE IF child = target THEN <<Append(path, child)>> \o rest
          ELSE Explore(adj, Append(path, child), adj[child], target) \o rest

\* list(nx.all_simple_paths(graph, start, end)) for start and end in the graph
all_simple_paths(adj, start, end, trivial) ==
  IF start = end
  THEN IF trivial THEN << <<start>> >> ELSE <<>>
  ELSE Explore(adj, <<start>>, adj[start], end)

\* the four sums along a path (the inner loop of dijkstra_multi_objective)
RECURSIVE PathTotals(_, _, _, _)
PathTotals(attr, path, i, total) ==
  IF i > Len(path) - 1 THEN total
  ELSE LET edge == attr[<<path[i], path[i + 1]>>]
       IN PathTotals(attr, path, i + 1,
            [distance |-> total.distance + edge.weight,
             duration |-> total.duration + edge.duration,
             fuel |-> total.fuel + edge.fuel,
             congestion |-> total.congestion + edge.congestion])

ZeroTotal == [distance |-> 0, duration |-> 0, fuel |-> 0, congestion |-> 0]

\* the weighted sum, in hundredths
WeightedSum(weights, total) ==
  CongestionUnit * (weights.distance * total.distance +
                    weights.duration * total.duration +
                    weights.fuel * total.fuel) +
  weights.congestion * total.congestion

PathScore(attr, path, weights) ==
  WeightedSum(weights, PathTotals(attr, path, 1, ZeroTotal))

\* "score > best_score": the worst path wins
ImprovesWhenLarger(score, best_score) == best_score.inf \/ Less(best_score, score)

\* "score <= best_score": the last of several best paths wins
ImprovesOrTies(score, best_score) == ~Less(best_score, score)

\* a path replaces the best one when "score < best_score"
Improves(score, best_score) == Less(score, best_score)

\* the loop over the paths: best is the pair best_path, best_score
RECURSIVE BestOf(_, _, _, _, _)
BestOf(attr, paths, weights, i, best) ==
  IF i > Len(paths) THEN best
  ELSE LET score == Fin(PathScore(attr, paths[i], weights))
       IN BestOf(attr, paths, weights, i + 1,
                 IF Improves(score, best.score)
                 THEN [path |-> paths[i], score |-> score]
                 ELSE best)

\* "best_score = 0"
InitialBestZero == [path |-> None, score |-> Fin(0)]

\* best_path and best_score before the loop
InitialBest == [path |-> None, score |-> Inf]

\* dijkstra_multi_objective: what it returns, or the exception it lets through.
\* all_simple_paths raises NodeNotFound for a node that is not in the graph
\* and never raises NetworkXNoPath.
dijkstra_multi_objective(nodes, adj, attr, start, end, weights, trivial) ==
  IF ~Contains(nodes, start) \/ ~Contains(nodes, end)
  THEN [raised |-> "NodeNotFound", path |-> None, score |-> Inf]
  ELSE LET best == BestOf(attr, all_simple_paths(adj, start, end, trivial),
                          weights, 1, InitialBest)
       IN [raised |-> "none", path |-> best.path, score |-> best.score]

NoMetrics == [total_distance_km |-> 0, flight_duration_min |-> 0,
              fuel_consumed_l |-> 0, avg_congestion |-> [num |-> 0, den |-> 1]]

\* analyze_path: the metrics, avg_congestion as the fraction num/den; the
\* division raises ZeroDivisionError for a path of one node
analyze_path(attr, path) ==
  LET t == PathTotals(attr, path, 1, ZeroTotal)
  IN IF Len(path) - 1 = 0
     THEN [raised |-> "ZeroDivisionError", metrics |-> NoMetrics]
     ELSE [raised |-> "none",
           metrics |-> [total_distance_km |-> t.distance,
                        flight_duration_min |-> t.duration,
                        fuel_consumed_l |-> t.fuel,
                        avg_congestion |-> [num |-> t.congestion,
                                            den |-> Len(path) - 1]]]

\* --------------------------------------------------------- route requests
WeightVectors ==
  { [distance |-> 1, duration |-> 1, fuel |-> 1, congestion |-> 1],
    [distance |-> 0, duration |-> 1, fuel |-> 0, congestion |-> -1] }

Request(start, end, weights, r, shown, raised, analyzed, metrics) ==
  [kind |-> "request", start |-> start, end |-> end, weights |-> weights,
   path |-> r.path, score |-> r.score,
   shown |-> shown, raised |-> raised, analyzed |-> analyzed,
   metrics |-> metrics]

\* AirTrafficGUI.find_route from the call of dijkstra_multi_objective on, for
\* the resolved ids start and end.  shown is what the user gets: the route
\* with its metrics, "no route found", or the error box of the handler.
find_route(start, end, weights) ==
  LET r == dijkstra_multi_objective(gNodes, gAdj, gAttr, start, end, weights,
                                    nxTrivial)
  IN IF r.raised # "none"
     THEN Request(start, end, weights, r, "error", r.raised, FALSE, NoMetrics)
     ELSE IF r.path # None
     THEN IF \E i \in 1..Len(r.path) : gName[r.path[i]] = 0
          THEN Request(start, end, weights, r, "error", "KeyError", FALSE,
                       NoMetrics)
          ELSE LET m == analyze_path(gAttr, r.path)
               IN IF m.raised # "none"
                  THEN Request(start, end, weights, r, "error", m.raised, TRUE,
                               NoMetrics)
                  ELSE Request(start, end, weights, r, "route", "none", TRUE,
                               m.metrics)
     ELSE Request(start, end, weights, r, "noroute", "none", FALSE, NoMetrics)

\* a request that simulates the weather again before it searches
ServeAfterWeather(start, end, weights) ==
  /\ pc = "ready"
  /\ \E draws \in [DOMAIN gAttr -> WeatherDraws] :
       gAttr' = simulate_weather_conditions(gAttr, draws)
  /\ weatherCalls' = weatherCalls + 1
  /\ last' = find_route(start, end, weights)
  /\ UNCHANGED <<files, pc, gNodes, gName, gAdj>>

Serve(start, end, weights) ==
  /\ pc = "ready"
  /\ last' = find_route(start, end, weights)
  /\ UNCHANGED <<files, pc, graph, weatherCalls>>

\* the button "Find Optimal Route"
FindRoute ==
  \E start \in Nodes, end \in Nodes, weights \in WeightVectors :
    Serve(start, end, weights)

Next == Build \/ SimulateWeather \/ FindRoute

Spec == Init /\ [][Next]_vars

\* ------------------------------------------- the weather simulated again
\* simulate_weather_conditions called once more on the same graph, before
\* any request: the application never does this, a caller of the function can
SimulateWeatherAgain ==
  /\ pc = "ready"
  /\ weatherCalls < MaxApply
  /\ \E draws \in [DOMAIN gAttr -> WeatherDraws] :
       gAttr' = simulate_weather_conditions(gAttr, draws)
  /\ weatherCalls' = weatherCalls + 1
  /\ UNCHANGED <<files, pc, gNodes, gName, gAdj, last>>

NextTwice == Build \/ SimulateWeather \/ SimulateWeatherAgain

SpecTwice == Init /\ [][NextTwice]_vars
\* ------------------------------------------------------------- properties
NodeSet == Range(gNodes)
IsRequest == last.kind = "request"

\* the simple directed paths from s to e, by definition: sequences of
\* distinct nodes of the graph with an edge between each two neighbours
SimplePaths(s, e) ==
  { p \in UNION { [1..k -> NodeSet] : k \in 1..Cardinality(NodeSet) } :
      /\ p[1] = s
      /\ p[Len(p)] = e
      /\ \A i, j \in 1..Len(p) : i # j => p[i] # p[j]
      /\ \A i \in 1..(Len(p) - 1) : <<p[i], p[i + 1]>> \in DOMAIN gAttr }

ScoreOf(p) == PathScore(gAttr, p, last.weights)

\* C1: when a request returns a path, the path is a simple path from start to
\* end, the returned score is the score of that path, and no simple path from
\* start to end has a smaller score.
C1_BestPathIsMinimal ==
  (IsRequest /\ last.path # None) =>
    /\ last.path \in SimplePaths(last.start, last.end)
    /\ last.score = Fin(ScoreOf(last.path))
    /\ \A p \in SimplePaths(last.start, last.end) :
         ScoreOf(last.path) <= ScoreOf(p)

\* a request chose between two paths of different scores
C1_Witness ==
  /\ IsRequest
  /\ last.path # None
  /\ \E p \in SimplePaths(last.start, last.end) :
       ScoreOf(last.path) < ScoreOf(p)

\* C2 (as claimed): a request whose start or end is not a node of the graph
\* ends as "no path" (no path, infinite score), without an exception.
C2_AbsentNodeIsNoPath ==
  (IsRequest /\ (last.start \notin NodeSet \/ last.end \notin NodeSet)) =>
    /\ last.raised = "none"
    /\ last.path = None
    /\ last.score = Inf
    /\ last.shown = "noroute"

\* C3: when start and end are different nodes of the graph and no directed
\* path leads from start to end, the request returns no path and an infinite
\* score, raises nothing, reports "no route found" and does not analyse.
C3_UnreachableIsNotFound ==
  ( /\ IsRequest
    /\ last.start \in NodeSet
    /\ last.end \in NodeSet
    /\ last.start # last.end
    /\ SimplePaths(last.start, last.end) = {} ) =>
    /\ last.raised = "none"
    /\ last.path = None
    /\ last.score = Inf
    /\ last.shown = "noroute"
    /\ ~last.analyzed

\* a request between two nodes of the graph that no path connects, although
\* the graph has an edge into the end node
C3_Witness ==
  /\ IsRequest
  /\ last.start \in NodeSet
  /\ last.end \in NodeSet
  /\ last.start # last.end
  /\ SimplePaths(last.start, last.end) = {}
  /\ \E e \in DOMAIN gAttr : e[2] = last.end
  /\ last.shown = "noroute"

\* C4 (as claimed): a request with start = end, a node of the graph, gives the
\* path [start] with score zero, and its analysis gives sums of zero and an
\* average congestion of zero instead of dividing by zero.
C4_SameNodeIsZeroPath ==
  (IsRequest /\ last.start = last.end /\ last.start \in NodeSet) =>
    /\ last.path = <<last.start>>
    /\ last.score = Fin(0)
    /\ last.raised # "ZeroDivisionError"
    /\ last.analyzed =>
         /\ last.metrics.total_distance_km = 0
         /\ last.metrics.avg_congestion.num = 0

Endpoints == { routesFile[i].from : i \in 1..Len(routesFile) } \cup
             { routesFile[i].to : i \in 1..Len(routesFile) }
AirportIds == Range(airportsFile)
DuplicateId ==
  \E i, j \in 1..Len(airportsFile) : i # j /\ airportsFile[i] = airportsFile[j]
\* the last airports row with id n, 0 when there is none
LastRow(n) ==
  IF n \in AirportIds
  THEN CHOOSE i \in 1..Len(airportsFile) :
         /\ airportsFile[i] = n
         /\ \A j \in (i + 1)..Len(airportsFile) : airportsFile[j] # n
  ELSE 0

C6_WeatherExactlyOnce ==
  /\ weatherCalls = (IF pc = "ready" THEN 1 ELSE 0)
  /\ pc = "start" => (gNodes = <<>> /\ DOMAIN gAttr = {})
  /\ IsRequest => (pc = "ready" /\ weatherCalls = 1)

\* a request was served on a graph with edges
C6_Witness ==
  /\ IsRequest
  /\ weatherCalls = 1
  /\ DOMAIN gAttr # {}

Enumerated == all_simple_paths(gAdj, last.start, last.end, nxTrivial)

\* C7: the path returned is the first path of the enumeration that has the
\* smallest score: every path enumerated before it has a strictly larger
\* score, and no path enumerated after it has a smaller one.
C7_TiesKeepFirst ==
  (IsRequest /\ last.path # None) =>
    \E i \in 1..Len(Enumerated) :
      /\ Enumerated[i] = last.path
      /\ \A j \in 1..(i - 1) : ScoreOf(Enumerated[j]) > ScoreOf(last.path)
      /\ \A j \in (i + 1)..Len(Enumerated) :
           ScoreOf(Enumerated[j]) >= ScoreOf(last.path)

\* two enumerated paths share the smallest score and the earlier is returned
C7_Witness ==
  /\ IsRequest
  /\ last.path # None
  /\ \E i, j \in 1..Len(Enumerated) :
       /\ i < j
       /\ Enumerated[i] = last.path
       /\ ScoreOf(Enumerated[j]) = ScoreOf(last.path)

SecondApplication == weatherCalls = 1 /\ weatherCalls' = 2

SameRequest ==
  /\ IsRequest
  /\ last'.start = last.start
  /\ last'.end = last.end
  /\ last'.weights = last.weights

\* C9: a request leaves the nodes, the edges and the attributes of every edge
\* as they are, and a request repeated with the same start, end and weights
\* returns the same path and the same score.
C9_RequestsLeaveGraph ==
  [][pc = "ready" =>
       /\ graph' = graph
       /\ SameRequest => (last'.path = last.path /\ last'.score = last.score)]_vars

\* a request found a route over at least one edge and analysed it
C9_Witness ==
  /\ IsRequest
  /\ last.shown = "route"
  /\ last.analyzed
  /\ Len(last.path) > 1

\* C10: one call of the weather simulation raises the duration of every edge
\* by an amount in [0, 20] and its congestion by an amount in [0, 0.2], and
\* leaves distance, fuel, the nodes and the edges as they are.
C10_WeatherFrame ==
  [][weatherCalls' # weatherCalls =>
       /\ <<gNodes', gName', gAdj'>> = <<gNodes, gName, gAdj>>
       /\ DOMAIN gAttr' = DOMAIN gAttr
       /\ \A e \in DOMAIN gAttr :
            /\ gAttr'[e].weight = gAttr[e].weight
            /\ gAttr'[e].fuel = gAttr[e].fuel
            /\ gAttr'[e].duration - gAttr[e].duration \in 0..MaxDelay
            /\ gAttr'[e].congestion - gAttr[e].congestion \in 0..MaxNoise
            /\ gAttr[e].duration >= 0 => gAttr'[e].duration >= 0
            /\ gAttr[e].congestion >= 0 => gAttr'[e].congestion >= 0]_vars

\* after the one call, an edge delayed by 20 with its congestion unchanged
\* next to an edge with more congestion and no delay
C10_Witness ==
  /\ pc = "ready"
  /\ weatherCalls = 1
  /\ \E e, f \in DOMAIN gAttr :
       /\ gAttr[e].duration = HopData(e[1], e[2]).duration + MaxDelay
       /\ gAttr[e].congestion = HopData(e[1], e[2]).congestion
       /\ gAttr[f].duration = HopData(f[1], f[2]).duration
       /\ gAttr[f].congestion = HopData(f[1], f[2]).congestion + MaxNoise
====
